---- MODULE Spec2Model ----
(***************************************************************************)
(* Model of the OpenAlex searcher (src/openalex_search.py) and of the      *)
(* search-button handler of its Streamlit front end (src/app_streamlit.py).*)
(*                                                                         *)
(* Spec     the paginated retriever get_all_results, one page fetch per    *)
(*          step, and what the search-button handler shows for its outcome.*)
(* SpecCsv  the consolidator save_to_csv: read the CSV, concatenate,       *)
(*          deduplicate, rewrite the CSV, report the counts.               *)
(* SpecQuery the query normalizer _format_query_for_openalex, applied to   *)
(*          every query of up to MaxQueryLen characters.                   *)
(***************************************************************************)
EXTENDS Integers, Sequences, FiniteSets, TLC

VARIABLES
    pc,            \* position of get_all_results: idle, loop, done, raised
    search_type,   \* argument search_type
    max_results,   \* argument max_results
    all_results,   \* local all_results, the accumulator
    page,          \* local page
    fetches,       \* log of the page fetches issued: requested page and answer
    result,        \* the returned list
    ui,            \* what the search-button handler shows for the call
    csv_exists,    \* whether the CSV file exists
    csv_rows,      \* the rows of the CSV file, as text fields
    calls,         \* number of save_to_csv calls made
    rows_before,   \* the rows of the CSV file when the last call began
    existing_df,   \* existing_df of the last save_to_csv call
    new_results,   \* new_results of the last save_to_csv call
    stats,         \* the dictionary the last save_to_csv call returned
    prev_batch,    \* new_results of the call before the last
    prev_stats,    \* the dictionary returned by the call before the last
    query,         \* argument query of _format_query_for_openalex, as characters
    formatted_query, \* what _format_query_for_openalex returned
    query_pc       \* position of _format_query_for_openalex: idle, called, returned

retriever_vars == <<pc, search_type, max_results, all_results, page, fetches, result, ui>>
csv_vars == <<csv_exists, csv_rows, calls, rows_before, existing_df, new_results, stats, prev_batch, prev_stats>>
vars == <<pc, search_type, max_results, all_results, page, fetches, result, ui,
          csv_exists, csv_rows, calls, rows_before, existing_df, new_results, stats, prev_batch, prev_stats,
          query, formatted_query, query_pc>>
query_vars == <<query, formatted_query, query_pc>>

Min(a, b) == IF a < b THEN a ELSE b
Max(a, b) == IF a > b THEN a ELSE b

(***************************************************************************)
(* Bounds of the model and constants of the program.                       *)
(***************************************************************************)
\* largest max_results a caller passes
MaxResults == 401
\* per_page = 200 in get_all_results
PerPage == 200
\* page = 1 in get_all_results, and the API's page when none is requested
FirstPage == 1
\* longest new_results batch a save_to_csv call merges
MaxBatch == 2
\* number of save_to_csv calls followed
MaxCalls == 2
\* longest query, in characters
MaxQueryLen == 5

\* the three search types get_all_results dispatches on
SearchTypes == {"title_abstract", "general", "title_only"}
\* what a caller may pass as search_type: the three types and something else
SearchTypeArgs == SearchTypes \cup {"full_text"}
\* what a caller may pass as max_results
MaxResultsArgs == {-1, 0, 1, 150, PerPage, 250, MaxResults}
\* how many works the API may answer on one page
PageSizes == {0, 1, 50, 150, PerPage}

(***************************************************************************)
(* The page fetchers.  A fetch answers an error dictionary (the request    *)
(* raised RequestException) or a page of n works; the API decides.         *)
(***************************************************************************)
ErrorBatch == [error |-> TRUE, n |-> 0]
PageBatch(n) == [error |-> FALSE, n |-> n]

\* The page number the request of each search type carries.  search_title_only
\* takes no page argument and sends no 'page' parameter: the API answers its
\* first page.
RequestedPage(st, p) ==
    IF st = "title_only" THEN FirstPage ELSE p

\* parse_results: one parsed record per work of the page, in the page's order;
\* a record is named by the fetch that brought it and its place in the page.
ParseResults(batch, k) ==
    IF batch.error THEN <<>>
    ELSE [i \in 1 .. batch.n |-> [fetch |-> k, idx |-> i]]

\* a bug of the accumulation: the batch replaces what was accumulated
ExtendReplacing(acc, parsed_batch) == parsed_batch

\* all_results.extend(parsed_batch)
Extend(acc, parsed_batch) == acc \o parsed_batch

\* a bug of the last-page test: a short page never ends the loop
IsLastPageNever(parsed_batch, per_page) == FALSE

\* len(parsed_batch) < per_page
IsLastPage(parsed_batch, per_page) == Len(parsed_batch) < per_page

\* a bug of the return: the accumulator is returned whole
SliceNothing(s, n) == s

\* Python's s[:n]
Slice(s, n) ==
    IF n >= 0 THEN SubSeq(s, 1, Min(n, Len(s)))
    ELSE SubSeq(s, 1, Max(Len(s) + n, 0))

\* the search-button handler: a warning for an empty list, a success otherwise
ShowResults(results) ==
    IF results = <<>> THEN "warning_no_results" ELSE "success"

\* the handler's except branch
ShowException == "error_exception"

(***************************************************************************)
(* The state before any call.                                              *)
(***************************************************************************)
RetrieverInit ==
    /\ pc = "idle"
    /\ search_type = "title_abstract"
    /\ max_results = 0
    /\ all_results = <<>>
    /\ page = FirstPage
    /\ fetches = <<>>
    /\ result = <<>>
    /\ ui = "none"

(***************************************************************************)
(* _format_query_for_openalex.  A string is a sequence of characters.      *)
(***************************************************************************)
\* the characters queries are written with
Chars == {"a", "n", "d", "o", "r", ",", " ", "\""}
Queries == UNION {[1 .. n -> Chars] : n \in 0 .. MaxQueryLen}

\* str.upper, character by character
UpperChar(c) ==
    CASE c = "a" -> "A" [] c = "n" -> "N" [] c = "d" -> "D"
      [] c = "o" -> "O" [] c = "r" -> "R" [] OTHER -> c
Upper(s) == [i \in 1 .. Len(s) |-> UpperChar(s[i])]

\* sub in s
Contains(s, sub) ==
    \E i \in 1 .. Len(s) - Len(sub) + 1 : SubSeq(s, i, i + Len(sub) - 1) = sub

RECURSIVE Split(_, _)
\* s.split(sep) for a one-character sep
Split(s, sep) ==
    IF \A i \in 1 .. Len(s) : s[i] # sep THEN <<s>>
    ELSE LET i == CHOOSE k \in 1 .. Len(s) :
                      s[k] = sep /\ \A j \in 1 .. k - 1 : s[j] # sep
         IN  <<SubSeq(s, 1, i - 1)>> \o Split(SubSeq(s, i + 1, Len(s)), sep)

RECURSIVE Strip(_)
\* s.strip()
Strip(s) ==
    IF s = <<>> THEN s
    ELSE IF s[1] = " " THEN Strip(Tail(s))
    ELSE IF s[Len(s)] = " " THEN Strip(SubSeq(s, 1, Len(s) - 1))
    ELSE s

\* [term.strip() for term in query.split(',') if term.strip()]
StrippedTerms(s) ==
    LET pieces == Split(s, ",")
        stripped == [i \in 1 .. Len(pieces) |-> Strip(pieces[i])]
    IN  SelectSeq(stripped, LAMBDA t : t # <<>>)

\* term.startswith('"') and term.endswith('"')
IsQuoted(term) == term # <<>> /\ term[1] = "\"" /\ term[Len(term)] = "\""

\* the loop body: an unquoted term with a space is wrapped in double quotes
FormatTerm(term) ==
    IF ~IsQuoted(term) /\ Contains(term, <<" ">>)
    THEN <<"\"">> \o term \o <<"\"">>
    ELSE term

RECURSIVE Join(_, _)
\* sep.join(terms)
Join(terms, sep) ==
    IF terms = <<>> THEN <<>>
    ELSE IF Len(terms) = 1 THEN terms[1]
    ELSE terms[1] \o sep \o Join(Tail(terms), sep)

\* ' OR '.join(formatted_terms)
OrList(s) ==
    LET terms == StrippedTerms(s)
    IN  Join([i \in 1 .. Len(terms) |-> FormatTerm(terms[i])],
             <<" ", "O", "R", " ">>)

\* ',' in query and 'OR' not in query.upper() and 'AND' not in query.upper()
IsCommaList(s) ==
    /\ Contains(s, <<",">>)
    /\ ~Contains(Upper(s), <<"O", "R">>)
    /\ ~Contains(Upper(s), <<"A", "N", "D">>)

\* _format_query_for_openalex
FormatQuery(s) == IF IsCommaList(s) THEN OrList(s) ELSE s

(***************************************************************************)
(* Parsed records and the CSV file.  Of a parsed record the model keeps    *)
(* doi, title and openalex_id.  NA stands for pandas' missing value (None  *)
(* in a new record, NaN in a record read from the file).                   *)
(***************************************************************************)
NA == "<NA>"

\* 'doi': work.get('doi', ''): a DOI, '' when the work has no doi key, None
\* when its doi is null
Dois == {"https://doi.org/10.1/a", "", NA}
Titles == {"t1", "t2"}
\* the i-th work of an answer is the work W<i>
OpenAlexId(i) == "W" \o ToString(i)

\* the lists get_all_results may return to save_to_csv
Batches ==
    UNION {{[i \in 1 .. n |-> [doi |-> w[i].doi, title |-> w[i].title,
                               openalex_id |-> OpenAlexId(i)]] :
               w \in [1 .. n -> [doi : Dois, title : Titles]]} :
           n \in 0 .. MaxBatch}

\* to_csv: a missing value is written as an empty field
ToCsvField(x) == IF x = NA THEN "" ELSE x
ToCsvRow(r) ==
    [doi |-> ToCsvField(r.doi), title |-> ToCsvField(r.title),
     openalex_id |-> ToCsvField(r.openalex_id)]
ToCsv(df) == [i \in 1 .. Len(df) |-> ToCsvRow(df[i])]

\* read_csv: an empty field is read as a missing value
ReadCsvField(x) == IF x = "" THEN NA ELSE x
ReadCsvRow(row) ==
    [doi |-> ReadCsvField(row.doi), title |-> ReadCsvField(row.title),
     openalex_id |-> ReadCsvField(row.openalex_id)]
ReadCsv(rows) == [i \in 1 .. Len(rows) |-> ReadCsvRow(rows[i])]

\* combined_df['title'].astype(str)
AsStr(x) == IF x = NA THEN "nan" ELSE x

\* combined_df['doi'].fillna('NO_DOI_' + combined_df['title'].astype(str)):
\* only a missing doi is filled; an empty string is kept as the key
DedupKey(r) == IF r.doi = NA THEN "NO_DOI_" \o AsStr(r.title) ELSE r.doi

RECURSIVE DropDuplicates(_)
\* drop_duplicates(subset=['dedup_key'], keep='last')
DropDuplicates(df) ==
    IF df = <<>> THEN <<>>
    ELSE IF \E j \in 2 .. Len(df) : DedupKey(df[j]) = DedupKey(df[1])
         THEN DropDuplicates(Tail(df))
         ELSE <<df[1]>> \o DropDuplicates(Tail(df))

\* pd.concat([existing_df, new_df]) unless existing_df is empty
Combine(existing, new) == IF existing # <<>> THEN existing \o new ELSE new

\* the files an earlier run may have left: none, or one written row
InitialFiles == {<<>>} \cup {ToCsv(b) : b \in {c \in Batches : Len(c) = 1}}

CsvInit ==
    /\ csv_rows \in InitialFiles
    /\ csv_exists = (csv_rows # <<>>)
    /\ calls = 0
    /\ rows_before = csv_rows
    /\ existing_df = <<>>
    /\ new_results = <<>>
    /\ stats = [new_records |-> 0, total_records |-> 0]
    /\ prev_batch = <<>>
    /\ prev_stats = [new_records |-> 0, total_records |-> 0]

\* no query is being formatted
QueryIdle ==
    /\ query = <<>>
    /\ formatted_query = <<>>
    /\ query_pc = "idle"

\* the retriever starts with no file on disk
Init == RetrieverInit /\ CsvInit /\ csv_rows = <<>> /\ QueryIdle

\* the consolidator starts with whatever file an earlier run left
InitCsv == RetrieverInit /\ CsvInit /\ QueryIdle

\* the normalizer is called with any query
InitQuery ==
    /\ RetrieverInit /\ CsvInit /\ csv_rows = <<>>
    /\ query \in Queries
    /\ formatted_query = <<>>
    /\ query_pc = "called"

(***************************************************************************)
(* get_all_results, called from the search-button handler.                 *)
(***************************************************************************)
\* the call: all_results = [], page = 1
GetAllResults ==
    /\ pc = "idle"
    /\ \E st \in SearchTypeArgs, mr \in MaxResultsArgs :
          /\ search_type' = st
          /\ max_results' = mr
    /\ all_results' = <<>>
    /\ page' = FirstPage
    /\ pc' = "loop"
    /\ UNCHANGED <<fetches, result, ui>>

\* return all_results[:max_results], and the handler showing the list
Return(acc) ==
    /\ result' = Slice(acc, max_results)
    /\ ui' = ShowResults(Slice(acc, max_results))
    /\ pc' = "done"

\* while len(all_results) < max_results: the condition fails
LoopExit ==
    /\ pc = "loop"
    /\ ~(Len(all_results) < max_results)
    /\ Return(all_results)
    /\ UNCHANGED <<search_type, max_results, all_results, page, fetches>>

\* the else branch of the dispatch: raise ValueError, caught by the handler
RaiseValueError ==
    /\ pc = "loop"
    /\ Len(all_results) < max_results
    /\ search_type \notin SearchTypes
    /\ pc' = "raised"
    /\ ui' = ShowException
    /\ UNCHANGED <<search_type, max_results, all_results, page, fetches, result>>

\* one iteration whose fetch answers an error dictionary: break
FetchError ==
    /\ pc = "loop"
    /\ Len(all_results) < max_results
    /\ search_type \in SearchTypes
    /\ fetches' = Append(fetches, [page |-> RequestedPage(search_type, page),
                                   batch |-> ErrorBatch])
    /\ Return(all_results)
    /\ UNCHANGED <<search_type, max_results, all_results, page>>

\* one iteration whose fetch answers a page without results: break
FetchNoResults ==
    /\ pc = "loop"
    /\ Len(all_results) < max_results
    /\ search_type \in SearchTypes
    /\ fetches' = Append(fetches, [page |-> RequestedPage(search_type, page),
                                   batch |-> PageBatch(0)])
    /\ Return(all_results)
    /\ UNCHANGED <<search_type, max_results, all_results, page>>

\* one iteration whose fetch answers a page of n works: parse, extend, then
\* break on a short page or go on with the next page
FetchResults ==
    /\ pc = "loop"
    /\ Len(all_results) < max_results
    /\ search_type \in SearchTypes
    /\ \E n \in PageSizes \ {0} :
          LET batch == PageBatch(n)
              parsed_batch == ParseResults(batch, Len(fetches) + 1)
              acc == Extend(all_results, parsed_batch)
          IN  /\ fetches' = Append(fetches, [page |-> RequestedPage(search_type, page),
                                             batch |-> batch])
              /\ all_results' = acc
              /\ IF IsLastPage(parsed_batch, PerPage)
                   THEN /\ Return(acc)
                        /\ UNCHANGED page
                   ELSE /\ page' = page + 1
                        /\ UNCHANGED <<pc, result, ui>>
    /\ UNCHANGED <<search_type, max_results>>

(***************************************************************************)
(* save_to_csv.  new_results is what its get_all_results call returned.    *)
(***************************************************************************)
\* what every call records of the call before it
Called(batch) ==
    /\ calls < MaxCalls
    /\ calls' = calls + 1
    /\ new_results' = batch
    /\ rows_before' = csv_rows
    /\ prev_batch' = new_results
    /\ prev_stats' = stats

\* if not new_results: return without reading or writing the file
SaveToCsvNoResults ==
    /\ Called(<<>>)
    /\ existing_df' = <<>>
    /\ stats' = [new_records |-> 0, total_records |-> 0]
    /\ UNCHANGED <<csv_exists, csv_rows>>

\* concat, dedup_key, drop_duplicates, to_csv and the returned dictionary
Merge(existing, batch) ==
    LET combined_df == Combine(existing, batch)
        initial_count == Len(combined_df)
        deduped == DropDuplicates(combined_df)
        final_count == Len(deduped)
    IN  /\ existing_df' = existing
        /\ csv_rows' = ToCsv(deduped)
        /\ csv_exists' = TRUE
        /\ stats' = [new_records |-> Len(batch),
                     total_records |-> final_count,
                     duplicates_removed |-> initial_count - final_count]

\* read_csv raises FileNotFoundError: existing_df stays empty
SaveToCsvNewFile ==
    /\ ~csv_exists
    /\ \E batch \in Batches \ {<<>>} :
          /\ Called(batch)
          /\ Merge(<<>>, batch)

\* read_csv succeeds
SaveToCsvExistingFile ==
    /\ csv_exists
    /\ \E batch \in Batches \ {<<>>} :
          /\ Called(batch)
          /\ Merge(ReadCsv(csv_rows), batch)

\* read_csv raises another exception: it is printed, existing_df stays empty
SaveToCsvReadError ==
    /\ csv_exists
    /\ \E batch \in Batches \ {<<>>} :
          /\ Called(batch)
          /\ Merge(<<>>, batch)

Next ==
    \/ (GetAllResults /\ UNCHANGED <<csv_vars, query_vars>>)
    \/ (LoopExit /\ UNCHANGED <<csv_vars, query_vars>>)
    \/ (RaiseValueError /\ UNCHANGED <<csv_vars, query_vars>>)
    \/ (FetchError /\ UNCHANGED <<csv_vars, query_vars>>)
    \/ (FetchNoResults /\ UNCHANGED <<csv_vars, query_vars>>)
    \/ (FetchResults /\ UNCHANGED <<csv_vars, query_vars>>)

NextCsv ==
    \/ (SaveToCsvNoResults /\ UNCHANGED <<retriever_vars, query_vars>>)
    \/ (SaveToCsvNewFile /\ UNCHANGED <<retriever_vars, query_vars>>)
    \/ (SaveToCsvExistingFile /\ UNCHANGED <<retriever_vars, query_vars>>)
    \/ (SaveToCsvReadError /\ UNCHANGED <<retriever_vars, query_vars>>)

\* the retriever
Spec == Init /\ [][Next]_vars

\* the consolidator
SpecCsv == InitCsv /\ [][NextCsv]_vars

\* _format_query_for_openalex: return the formatted query
FormatQueryForOpenalex ==
    /\ query_pc = "called"
    /\ formatted_query' = FormatQuery(query)
    /\ query_pc' = "returned"
    /\ UNCHANGED query

NextQuery ==
    FormatQueryForOpenalex /\ UNCHANGED <<retriever_vars, csv_vars>>

\* the query normalizer
SpecQuery == InitQuery /\ [][NextQuery]_vars

(***************************************************************************)
(* What the fetch log says, computed from the log alone.                   *)
(***************************************************************************)
RECURSIVE ParsedThrough(_, _)
\* the records of the pages answered by fetches 1..k of the log, in fetch order
ParsedThrough(log, k) ==
    IF k = 0 THEN <<>>
    ELSE ParsedThrough(log, k - 1) \o
         [i \in 1 .. log[k].batch.n |-> [fetch |-> k, idx |-> i]]

\* the number of records held when fetch k is issued
AccBefore(k) == Len(ParsedThrough(fetches, k - 1))

\* an answer after which the loop fetches no more
Stopping(batch) == batch.error \/ batch.n = 0 \/ batch.n < PerPage

CeilDiv(a, b) == (a + b - 1) \div b

\* what the caller gets and what the handler shows
Outcome == [returned |-> result, shown |-> ui]

\* the outcome of a call whose first page is answered without results
NoResultsOutcome ==
    [returned |-> Slice(<<>>, max_results),
     shown |-> ShowResults(Slice(<<>>, max_results))]

\* a call whose first page is answered without results ends in NoResultsOutcome
NoResultsOutcomeReached ==
    (pc = "done" /\ Len(fetches) = 1 /\ fetches[1].batch = PageBatch(0))
        => Outcome = NoResultsOutcome

(***************************************************************************)
(* Claims about the paginated retriever.                                   *)
(***************************************************************************)

\* C1: in every search type the k-th page fetch of one get_all_results call
\* requests page number k, so no page is requested twice within one call.
C1_KthFetchRequestsPageK ==
    \A k \in 1 .. Len(fetches) : fetches[k].page = k

\* C2 as stated: for every max_results the returned list never has more than
\* max_results records, and has exactly max_results records whenever the
\* records parsed from the fetched pages number at least max_results.
C2_NeverMoreThanMax ==
    pc = "done" =>
        LET parsed == ParsedThrough(fetches, Len(fetches)) IN
        /\ Len(result) <= max_results
        /\ Len(parsed) >= max_results => Len(result) = max_results

\* C2: get_all_results returns the accumulator truncated to max_results: for
\* max_results >= 0 a prefix of the parsed records with never more than
\* max_results records, and exactly max_results records whenever the records
\* parsed from the fetched pages number at least max_results; for a negative
\* max_results the empty list.
C2_ResultTruncatedToMax ==
    pc = "done" =>
        LET parsed == ParsedThrough(fetches, Len(fetches)) IN
        /\ Len(result) <= Len(parsed)
        /\ result = SubSeq(parsed, 1, Len(result))
        /\ max_results >= 0 => Len(result) <= max_results
        /\ (max_results >= 0 /\ Len(parsed) >= max_results) => Len(result) = max_results
        /\ max_results < 0 => result = <<>>

\* C2 witness: a finished call that parsed more records than max_results.
C2_Witness ==
    /\ pc = "done"
    /\ max_results = 250
    /\ Len(ParsedThrough(fetches, Len(fetches))) = 400
    /\ Len(result) = 250

\* C3: pages are fetched one after another and fetching stops at the first of:
\* the accumulator holding at least max_results records, a page carrying an
\* error, a page without results, a page whose parsed batch has fewer than 200
\* records.  So at most ceil(max_results / 200) fetches are issued, and with
\* max_results <= 0 no fetch is issued and the empty list is returned.
C3_StopsAtFirstStopCondition ==
    /\ \A k \in 1 .. Len(fetches) :
          /\ AccBefore(k) < max_results
          /\ \A j \in 1 .. k - 1 : ~Stopping(fetches[j].batch)
    /\ pc = "loop" => \A k \in 1 .. Len(fetches) : ~Stopping(fetches[k].batch)
    /\ (pc = "done" /\ fetches # <<>>) =>
          \/ Stopping(fetches[Len(fetches)].batch)
          \/ AccBefore(Len(fetches) + 1) >= max_results
    /\ (pc = "done" /\ fetches = <<>>) => max_results <= 0
    /\ max_results > 0 => Len(fetches) <= CeilDiv(max_results, PerPage)
    /\ max_results <= 0 => (fetches = <<>> /\ (pc = "done" => result = <<>>))
    /\ (pc = "done" /\ max_results = 250 /\ fetches # <<>>) =>
          /\ fetches[1].batch = PageBatch(150) => Len(fetches) = 1
          /\ fetches[1].batch = PageBatch(PerPage) => Len(fetches) = 2

\* C3 witness: max_results = 250, pages of 200 then 50: two fetches, 250 records.
C3_Witness ==
    /\ pc = "done"
    /\ max_results = 250
    /\ Len(fetches) = 2
    /\ fetches[1].batch = PageBatch(PerPage)
    /\ fetches[2].batch = PageBatch(50)
    /\ Len(result) = 250

\* C4: when the n-th page fetch answers an error, no further fetch is issued
\* and the call returns, without raising, exactly the records parsed from
\* fetches 1..n-1 in fetch order, truncated to max_results; the accumulator is
\* neither lost nor altered.
C4_ErrorKeepsAccumulated ==
    \A n \in 1 .. Len(fetches) :
        fetches[n].batch.error =>
            LET kept == ParsedThrough(fetches, n - 1) IN
            /\ n = Len(fetches)
            /\ pc = "done"
            /\ all_results = kept
            /\ result = SubSeq(kept, 1, Min(max_results, Len(kept)))

\* C4 witness: the third fetch fails after two full pages were accumulated.
C4_Witness ==
    /\ Len(fetches) = 3
    /\ fetches[3].batch.error
    /\ Len(result) = 2 * PerPage

\* C9: a transport failure and a zero-result answer are distinguishable: a call
\* whose first page fetch fails ends in an outcome (returned value, state shown
\* by the handler) other than that of a call whose first page has no results.
C9_ErrorDistinctFromNoResults ==
    (pc \in {"done", "raised"} /\ Len(fetches) = 1 /\ fetches[1].batch.error)
        => Outcome # NoResultsOutcome

\* C10: a call whose search type is none of the three ends in ValueError and
\* never returns a list, for every max_results, without any page fetch.
C10_InvalidModeRaises ==
    (pc \in {"done", "raised"} /\ search_type \notin SearchTypes)
        => (pc = "raised" /\ fetches = <<>>)

(***************************************************************************)
(* Claims about the consolidator.                                          *)
(***************************************************************************)
\* a record or a row without a DOI: its doi is empty, or missing
LacksDoi(r) == r.doi \in {"", NA}

\* the dedup key of the specification: the DOI if non-empty, otherwise the
\* discriminator prefix concatenated with the title
KeyOf(r) == IF LacksDoi(r) THEN "NO_DOI_" \o r.title ELSE r.doi

\* the last call merged a batch into the file
Merged == calls > 0 /\ new_results # <<>>

\* existing first, new second, as the last merge concatenated them
Concatenation == existing_df \o new_results

\* a count of the returned dictionary, 0 when the dictionary has no such entry
Reported(name) == IF name \in DOMAIN stats THEN stats[name] ELSE 0

\* C5: after every consolidation no two records of the persisted collection
\* share a dedup key (the DOI if non-empty, otherwise prefix + title); two
\* records that both lack a DOI are merged only when their titles are
\* identical and are kept apart when their titles differ.
C5_NoTwoRowsShareDedupKey ==
    /\ \A i, j \in 1 .. Len(csv_rows) :
          i # j => KeyOf(csv_rows[i]) # KeyOf(csv_rows[j])
    /\ Merged =>
          \A i \in 1 .. Len(Concatenation) :
              LacksDoi(Concatenation[i]) =>
                  \E k \in 1 .. Len(csv_rows) :
                      /\ LacksDoi(csv_rows[k])
                      /\ csv_rows[k].title = Concatenation[i].title

\* C6: refresh wins: for every dedup key that occurs more than once in the
\* concatenation (existing first, new second) the single record kept in the
\* persisted collection is the latest occurrence.
C6_LatestOccurrenceKept ==
    Merged =>
        \A i \in 1 .. Len(Concatenation) :
            LET occurrences == {j \in 1 .. Len(Concatenation) :
                                   KeyOf(Concatenation[j]) = KeyOf(Concatenation[i])}
                latest == CHOOSE j \in occurrences : \A o \in occurrences : o <= j
                kept == {k \in 1 .. Len(csv_rows) :
                            KeyOf(csv_rows[k]) = KeyOf(Concatenation[i])}
            IN  Cardinality(occurrences) > 1 =>
                    /\ Cardinality(kept) = 1
                    /\ \A k \in kept : csv_rows[k] = ToCsvRow(Concatenation[latest])

\* C7: idempotence: merging a batch and then the identical batch again, on the
\* collection just persisted, reports the same total_records both times.
C7_SameBatchTwiceSameTotal ==
    (calls >= 2 /\ new_results = prev_batch /\ ReadCsv(rows_before) = existing_df)
        => stats.total_records = prev_stats.total_records

\* C8: for every existing collection and every batch, the empty batch too, the
\* merge reports new_records, total_records and duplicates_removed with
\* duplicates_removed = (existing_count + new_count) - final_count, where
\* final_count, reported as total_records, is the number of records of the
\* persisted collection after the call.
C8_DuplicatesRemovedEquation ==
    calls > 0 =>
        /\ Reported("new_records") = Len(new_results)
        /\ Reported("total_records") = Len(csv_rows)
        /\ Reported("duplicates_removed")
              = (Len(rows_before) + Len(new_results)) - Reported("total_records")

(***************************************************************************)
(* Claims about the query normalizer.                                      *)
(***************************************************************************)
\* a character of a word
IsLetter(c) == c \in {"a", "n", "d", "o", "r"}

\* the word w, in capitals, occurs in s as a whole token, in any case
HasToken(s, w) ==
    \E i \in 1 .. Len(s) - Len(w) + 1 :
        LET j == i + Len(w) - 1 IN
        /\ SubSeq(Upper(s), i, j) = w
        /\ (i = 1 \/ ~IsLetter(s[i - 1]))
        /\ (j = Len(s) \/ ~IsLetter(s[j + 1]))

\* C11: the normalizer rewrites a query as a comma-separated OR list exactly
\* when the query contains a comma and contains neither AND nor OR as a whole
\* token (case-insensitive): a comma query whose words merely contain 'or' or
\* 'and' inside a longer word is still split on commas, trimmed, its empty
\* terms dropped, its space-containing unquoted terms wrapped in double quotes,
\* and joined with ' OR '; any other query is returned unchanged.
C11_OrListUnlessBooleanToken ==
    query_pc = "returned" =>
        formatted_query =
            IF /\ Contains(query, <<",">>)
               /\ ~HasToken(query, <<"O", "R">>)
               /\ ~HasToken(query, <<"A", "N", "D">>)
            THEN OrList(query)
            ELSE query

(***************************************************************************)
(* Claim about what a merge leaves of the existing file.                   *)
(***************************************************************************)
\* the dedup keys of the batch the last call merged
NewKeys == {KeyOf(new_results[j]) : j \in 1 .. Len(new_results)}

\* C12: consolidation never loses unrelated existing data: after every merge
\* with a non-empty batch, every record of the previously persisted collection
\* whose dedup key does not occur in the batch is still present, unchanged, in
\* the rewritten file, whatever the outcome of reading the existing file (read
\* succeeds, file absent, read fails with another error).
C12_UnrelatedRowsKept ==
    Merged =>
        \A i \in 1 .. Len(rows_before) :
            KeyOf(rows_before[i]) \notin NewKeys =>
                \E k \in 1 .. Len(csv_rows) : csv_rows[k] = rows_before[i]

====
